---- MODULE Spec2Model ----
(***************************************************************************)
(* Gmail JSONL -> .eml ingestion: processMessages (processor.ts) driving    *)
(* listJsonlKeys / readJsonlFromS3 (jsonlReader.ts), extractEmail / toEml   *)
(* (emailExtractor.ts) and the HeadObject / PutObject idempotency gate.     *)
(***************************************************************************)
EXTENDS Integers, Sequences, FiniteSets, TLC

(***************************************************************************)
(* Bounds of the model.                                                     *)
(***************************************************************************)
\* files under the details prefix
MaxFiles == 2
\* lines of all files together, of a single run
MaxLines == 2
\* lines of all files together, when several runs process them in sequence
MaxRerunLines == 2
\* the largest finite --limit
MaxLimit == 2
\* invocations of processMessages against the same store
MaxRuns == 2
\* parts of the payload tree of a message extracted on its own
MaxParts == 5
\* invocations of the sync runner, one after the other
MaxSyncRuns == 2
\* parts of a payload tree in which any part may lack body data
MaxSparseParts == 4
\* code points of a text encoded and decoded again, and characters of a string
\* of encoded data decoded on its own
MaxTextLen == 3
MaxDataLen == 3
\* pages of a ListObjectsV2 listing, and the entries of all pages together
MaxPages == 3
MaxListedKeys == 3
\* lines of all files together, when several runs process them concurrently
MaxConcurrentLines == 1

\* opts.limit ?? Infinity : a value no processed count reaches
Infinity == MaxLines + MaxRerunLines + MaxLimit + 1

Runs == 1..MaxRuns

(***************************************************************************)
(* Values.  "" stands for an absent (undefined / null / empty) string: all  *)
(* of them are falsy in the tests the code makes.  An optional object is a  *)
(* sequence of length 0 (absent) or 1 (present).                            *)
(***************************************************************************)
None == <<>>
Some(x) == <<x>>

\* String.prototype.toLowerCase on the strings the model uses
toLowerCase(s) ==
  CASE s = "TEXT/HTML" -> "text/html"
    [] s = "Text/Plain" -> "text/plain"
    [] s = "Multipart/Alternative" -> "multipart/alternative"
    [] s = "Subject" -> "subject"
    [] s = "SUBJECT" -> "subject"
    [] s = "From" -> "from"
    [] s = "To" -> "to"
    [] s = "Cc" -> "cc"
    [] s = "Bcc" -> "bcc"
    [] s = "Date" -> "date"
    [] s = "B.JSONL" -> "b.jsonl"
    [] OTHER -> s

\* s.startsWith("multipart/") on the media types the model uses
startsWithMultipart(s) ==
  s \in {"multipart/alternative", "multipart/mixed", "multipart/related"}

\* s.includes("html") on the media types the model uses
includesHtml(s) == s \in {"text/html", "application/xhtml"}

\* GmailPart
Part(mime, data, parts) ==
  [mimeType |-> mime, data |-> data, headers |-> <<>>, parts |-> parts]

WithHeaders(part, hs) == [part EXCEPT !.headers = hs]

Header(n, v) == [name |-> n, value |-> v]

\* GmailMessage inside an envelope, itself holding further envelopes
NestedCore(id, payload, airbyte, data) ==
  [id |-> id, payload |-> payload, _airbyte_data |-> airbyte, data |-> data]

\* GmailMessage inside an envelope, or the record itself seen as one
Core(id, payload) == NestedCore(id, payload, None, None)

\* One parsed JSONL record: the fields processMessages and extractEmail read
Record(id, airbyte, data, messageDotId, messageId, payload, snippet) ==
  [id |-> id, _airbyte_data |-> airbyte, data |-> data,
   message_id |-> messageDotId, messageId |-> messageId,
   payload |-> payload, snippet |-> snippet]

(***************************************************************************)
(* emailExtractor.ts                                                        *)
(***************************************************************************)
\* A string of encoded data is decoded character by character; the strings
\* of records are atoms, so the encoded bodies in use are spelled out here.
Chars(data) ==
  CASE data = "aGVsbG8" -> <<"a", "G", "V", "s", "b", "G", "8">>
    [] data = "PGI-aGk8L2I-" ->
         <<"P", "G", "I", "-", "a", "G", "k", "8", "L", "2", "I", "-">>
    [] data = "d29ybGQ=" -> <<"d", "2", "9", "y", "b", "G", "Q", "=">>
    [] data = "bmVzdGVk" -> <<"b", "m", "V", "z", "d", "G", "V", "k">>
    [] data = "JVBERg" -> <<"J", "V", "B", "E", "R", "g">>
    [] data = "aGk!" -> <<"a", "G", "k", "!">>
    [] data = "_w" -> <<"_", "w">>
    [] OTHER -> <<>>

\* the string made of the given code points, for the decoded bodies in use
fromCodePoints(cps) ==
  CASE cps = <<>> -> ""
    [] cps = <<104, 101, 108, 108, 111>> -> "hello"
    [] cps = <<60, 98, 62, 104, 105, 60, 47, 98, 62>> -> "<b>hi</b>"
    [] cps = <<119, 111, 114, 108, 100>> -> "world"
    [] cps = <<110, 101, 115, 116, 101, 100>> -> "nested"
    [] cps = <<37, 80, 68, 70>> -> "%PDF"
    [] cps = <<104, 105>> -> "hi"
    [] cps = <<65533>> -> "(U+FFFD)"
    [] OTHER -> "(other text)"

\* the standard alphabet of the "base64" encoding of Buffer
Base64Alphabet ==
  <<"A", "B", "C", "D", "E", "F", "G", "H", "I", "J", "K", "L", "M",
    "N", "O", "P", "Q", "R", "S", "T", "U", "V", "W", "X", "Y", "Z",
    "a", "b", "c", "d", "e", "f", "g", "h", "i", "j", "k", "l", "m",
    "n", "o", "p", "q", "r", "s", "t", "u", "v", "w", "x", "y", "z",
    "0", "1", "2", "3", "4", "5", "6", "7", "8", "9", "+", "/">>

\* the six bits a character stands for in Buffer.from(s, "base64"), which
\* also accepts the URL-safe characters; 64 for any other character
unbase64(c) ==
  IF c = "-" THEN 62
  ELSE IF c = "_" THEN 63
  ELSE IF \E i \in 1..64 : Base64Alphabet[i] = c
    THEN (CHOOSE i \in 1..64 : Base64Alphabet[i] = c) - 1
  ELSE 64

\* data.replace(/-/g, "+").replace(/_/g, "/") + "=".repeat((4 - (data.length % 4)) % 4)
padded(data) ==
  [i \in 1..Len(data) |->
     IF data[i] = "-" THEN "+" ELSE IF data[i] = "_" THEN "/" ELSE data[i]]
  \o [i \in 1..((4 - (Len(data) % 4)) % 4) |-> "="]

RECURSIVE Sextets(_)
\* Buffer.from(s, "base64") reads the characters of the alphabet, passes over
\* any other character and stops at the first "="; it never throws
Sextets(s) ==
  IF s = <<>> THEN <<>>
  ELSE IF unbase64(Head(s)) < 64 THEN <<unbase64(Head(s))>> \o Sextets(Tail(s))
  ELSE IF Head(s) = "=" THEN <<>>
  ELSE Sextets(Tail(s))

RECURSIVE Octets_WholeGroups(_)
\* only the groups of four characters decoded
Octets_WholeGroups(x) ==
  IF Len(x) >= 4
    THEN <<x[1] * 4 + (x[2] \div 16), (x[2] % 16) * 16 + (x[3] \div 4),
           (x[3] % 4) * 64 + x[4]>> \o Octets_WholeGroups(SubSeq(x, 5, Len(x)))
  ELSE <<>>

RECURSIVE Octets(_)
\* four characters give three bytes; three trailing characters give two
\* bytes, two give one, a single one gives none
Octets(x) ==
  IF Len(x) >= 4
    THEN <<x[1] * 4 + (x[2] \div 16), (x[2] % 16) * 16 + (x[3] \div 4),
           (x[3] % 4) * 64 + x[4]>> \o Octets(SubSeq(x, 5, Len(x)))
  ELSE IF Len(x) = 3
    THEN <<x[1] * 4 + (x[2] \div 16), (x[2] % 16) * 16 + (x[3] \div 4)>>
  ELSE IF Len(x) = 2 THEN <<x[1] * 4 + (x[2] \div 16)>>
  ELSE <<>>

\* Buffer.from(padded, "base64")
BufferFrom(s) == Octets(Sextets(s))

\* U+FFFD REPLACEMENT CHARACTER
Replacement == 65533

RECURSIVE Utf8Decode(_, _, _, _, _, _)
\* buf.toString("utf8") from byte i on, `needed` continuation bytes of the code
\* point cp outstanding, the next of them within lower..upper: a byte that
\* cannot start or continue a sequence becomes U+FFFD; it never throws
Utf8Decode(bytes, i, cp, needed, lower, upper) ==
  IF i > Len(bytes) THEN (IF needed = 0 THEN <<>> ELSE <<Replacement>>)
  ELSE LET b == bytes[i]
       IN IF needed = 0
            THEN IF b <= 127 THEN <<b>> \o Utf8Decode(bytes, i + 1, 0, 0, 128, 191)
                 ELSE IF b \in 194..223
                   THEN Utf8Decode(bytes, i + 1, b % 32, 1, 128, 191)
                 ELSE IF b \in 224..239
                   THEN Utf8Decode(bytes, i + 1, b % 16, 2,
                                   IF b = 224 THEN 160 ELSE 128,
                                   IF b = 237 THEN 159 ELSE 191)
                 ELSE IF b \in 240..244
                   THEN Utf8Decode(bytes, i + 1, b % 8, 3,
                                   IF b = 240 THEN 144 ELSE 128,
                                   IF b = 244 THEN 143 ELSE 191)
                 ELSE <<Replacement>> \o Utf8Decode(bytes, i + 1, 0, 0, 128, 191)
          ELSE IF b \notin lower..upper
            THEN <<Replacement>> \o Utf8Decode(bytes, i, 0, 0, 128, 191)
          ELSE IF needed = 1
            THEN <<cp * 64 + (b % 64)>> \o Utf8Decode(bytes, i + 1, 0, 0, 128, 191)
          ELSE Utf8Decode(bytes, i + 1, cp * 64 + (b % 64), needed - 1, 128, 191)

\* buf.toString("utf8"), as code points
toStringUtf8(bytes) == Utf8Decode(bytes, 1, 0, 0, 128, 191)

\* base64UrlDecode on a string given by its characters
DecodeChars(data) == toStringUtf8(BufferFrom(padded(data)))

\* function base64UrlDecode(data: string): string
base64UrlDecode(data) == fromCodePoints(DecodeChars(Chars(data)))

\* headers?.find(hh => hh.name?.toLowerCase() === name.toLowerCase())?.value
findHeader(headers, name) ==
  LET hits == {i \in 1..Len(headers) :
                 toLowerCase(headers[i].name) = toLowerCase(name)}
  IN IF hits = {} THEN ""
     ELSE headers[CHOOSE i \in hits : \A j \in hits : i <= j].value

\* parts.find(p => (p.mimeType || "").toLowerCase() === mime && p.body?.data)
FindChild(parts, mime) ==
  LET hits == {i \in 1..Len(parts) :
                 toLowerCase(parts[i].mimeType) = mime /\ parts[i].data # ""}
  IN IF hits = {} THEN None
     ELSE Some(parts[CHOOSE i \in hits : \A j \in hits : i <= j])

\* findPart without the descent into the children's own parts
findPart_NoRecursion(part, preferHtml) ==
  IF part = None THEN None
  ELSE
    LET p == part[1]
        html == IF preferHtml THEN FindChild(p.parts, "text/html") ELSE None
        plain == FindChild(p.parts, "text/plain")
    IN IF ~startsWithMultipart(toLowerCase(p.mimeType)) /\ p.data # ""
         THEN Some([mime |-> IF p.mimeType # "" THEN p.mimeType ELSE "text/plain",
                    data |-> p.data])
       ELSE IF html # None
         THEN Some([mime |-> "text/html", data |-> html[1].data])
       ELSE IF plain # None
         THEN Some([mime |-> "text/plain", data |-> plain[1].data])
       ELSE None

\* the leaf check passed only by parts without children
LeafMatch_Childless(p) ==
  ~startsWithMultipart(toLowerCase(p.mimeType)) /\ p.data # "" /\ p.parts = <<>>

\* !isMultipart && part.body?.data
LeafMatch(p) == ~startsWithMultipart(toLowerCase(p.mimeType)) /\ p.data # ""

RECURSIVE findPart(_, _)
\* part is an optional GmailPart; the result an optional {mime, data}
findPart(part, preferHtml) ==
  IF part = None THEN None
  ELSE
    LET p == part[1]
        parts == p.parts
        html == IF preferHtml THEN FindChild(parts, "text/html") ELSE None
        plain == FindChild(parts, "text/plain")
        found == {i \in 1..Len(parts) :
                    findPart(Some(parts[i]), preferHtml) # None}
    IN IF LeafMatch(p)
         THEN Some([mime |-> IF p.mimeType # "" THEN p.mimeType ELSE "text/plain",
                    data |-> p.data])
       ELSE IF html # None
         THEN Some([mime |-> "text/html", data |-> html[1].data])
       ELSE IF plain # None
         THEN Some([mime |-> "text/plain", data |-> plain[1].data])
       ELSE IF found = {} THEN None
       ELSE findPart(Some(parts[CHOOSE i \in found : \A j \in found : i <= j]),
                     preferHtml)

\* the envelope of the core unwrapped once more
Unwrap_Twice(msg) ==
  LET core == IF msg._airbyte_data # None THEN msg._airbyte_data[1]
              ELSE IF msg.data # None THEN msg.data[1]
              ELSE Core(msg.id, msg.payload)
  IN IF core._airbyte_data # None THEN core._airbyte_data[1]
     ELSE IF core.data # None THEN core.data[1]
     ELSE core

\* msg._airbyte_data ?? msg.data ?? msg
Unwrap(msg) ==
  IF msg._airbyte_data # None THEN msg._airbyte_data[1]
  ELSE IF msg.data # None THEN msg.data[1]
  ELSE Core(msg.id, msg.payload)

\* the body part searched without the preference for HTML
SelectPart_PlainFirst(msg) == findPart(Unwrap(msg).payload, FALSE)

\* const part = findPart(core.payload, true)
SelectPart(msg) == findPart(Unwrap(msg).payload, TRUE)

\* the value extractEmail returns, or the Error it throws (error # "")
Thrown(message) ==
  [error |-> message, messageId |-> "", subject |-> "", from |-> "", to |-> "",
   cc |-> "", bcc |-> "", date |-> "", bodyMime |-> "", body |-> "",
   snippet |-> ""]

extractEmail(msg) ==
  LET core == Unwrap(msg)
      headers == IF core.payload = None THEN <<>> ELSE core.payload[1].headers
      part == SelectPart(msg)
  IN IF core.id = "" THEN Thrown("Missing message id")
     ELSE IF part = None THEN Thrown("No body found")
     ELSE [error |-> "",
           messageId |-> core.id,
           subject |-> findHeader(headers, "Subject"),
           from |-> findHeader(headers, "From"),
           to |-> findHeader(headers, "To"),
           cc |-> findHeader(headers, "Cc"),
           bcc |-> findHeader(headers, "Bcc"),
           date |-> findHeader(headers, "Date"),
           bodyMime |-> IF includesHtml(toLowerCase(part[1].mime))
                          THEN "text/html" ELSE "text/plain",
           body |-> base64UrlDecode(part[1].data),
           snippet |-> msg.snippet]

CRLF == "\r\n"

RECURSIVE Join(_, _)
\* Array.prototype.join
Join(lines, sep) ==
  IF lines = <<>> THEN ""
  ELSE IF Len(lines) = 1 THEN lines[1]
  ELSE lines[1] \o sep \o Join(Tail(lines), sep)

\* an optional header line emitted even when the field is empty
HeaderLine_KeepsEmpty(name, value) == <<name \o ": " \o value>>

\* one optional header line of toEml: null when the field is empty
HeaderLine(name, value) == IF value # "" THEN <<name \o ": " \o value>> ELSE <<>>

toEml(email) ==
  LET headers ==
        HeaderLine("From", email.from) \o HeaderLine("To", email.to) \o
        HeaderLine("Cc", email.cc) \o HeaderLine("Bcc", email.bcc) \o
        HeaderLine("Subject", email.subject) \o HeaderLine("Date", email.date) \o
        << "Message-ID: <" \o email.messageId \o "@gmail>",
           "MIME-Version: 1.0",
           "Content-Type: " \o email.bodyMime \o "; charset=\"UTF-8\"" >>
  IN Join(headers, CRLF) \o CRLF \o CRLF \o email.body

(***************************************************************************)
(* The record set: JSONL lines of the details files.                        *)
(***************************************************************************)
PlainHello == Part("text/plain", "aGVsbG8", <<>>)
HtmlHi == Part("TEXT/HTML", "PGI-aGk8L2I-", <<>>)
PlainWorld == Part("Text/Plain", "d29ybGQ=", <<>>)

\* {id:"m1", payload:{headers:[Subject: Hi], parts:[text/plain]}}
RecPlain ==
  Record("m1", None, None, "", "",
         Some(WithHeaders(Part("", "", <<PlainHello>>), <<Header("Subject", "Hi")>>)),
         "hello")
\* {_airbyte_data:{id:"m1", payload: multipart/alternative[plain, html]}}
RecAirbyte ==
  Record("", Some(Core("m1", Some(Part("multipart/alternative", "",
                                       <<PlainHello, HtmlHi>>)))),
         None, "", "", None, "")
\* {data:{id:"m2", payload: text/plain leaf}}
RecData == Record("", None, Some(Core("m2", Some(PlainWorld))), "", "", None, "")
\* {id:"m1"} : no payload, so no body
RecNoBody == Record("m1", None, None, "", "", None, "")
\* {payload: ...} : no identifier anywhere
RecNoId == Record("", None, None, "", "", Some(PlainHello), "")

\* {id:"m2", payload: text/plain leaf whose data has a character outside the
\* URL-safe alphabet}, and one whose data decodes to the byte 0xFF
RecBadChars == Record("m2", None, None, "", "", Some(Part("text/plain", "aGk!", <<>>)), "")
RecBadUtf8 == Record("m2", None, None, "", "", Some(Part("text/plain", "_w", <<>>)), "")

\* {id:"m1", _airbyte_data:{id:"m2", payload: text/plain leaf}} : an id at top
\* level and another one inside the envelope
RecTwoIds ==
  Record("m1", Some(Core("m2", Some(PlainHello))), None, "", "", None, "")

\* {id:"m1", data:{payload: text/plain leaf}} : an id, but none in the core
RecIdOutsideCore ==
  Record("m1", None, Some(Core("", Some(PlainHello))), "", "", None, "")

(***************************************************************************)
(* The messages extractEmail and toEml are applied to on their own.         *)
(***************************************************************************)
\* an attachment carried inline
Pdf == Part("application/pdf", "JVBERg", <<>>)
PlainNested == Part("text/plain", "bmVzdGVk", <<>>)

Leaves == {PlainHello, PlainWorld, HtmlHi, Pdf}

RECURSIVE TreesOf(_)
RECURSIVE ForestsOf(_)
\* the part trees of exactly n parts: a leaf, or a multipart over a forest
TreesOf(n) ==
  IF n = 1 THEN Leaves
  ELSE {Part("multipart/mixed", "", f) : f \in ForestsOf(n - 1)}

\* the sequences of part trees that have m parts together
ForestsOf(m) ==
  IF m = 0 THEN {<<>>}
  ELSE UNION {{<<t>> \o f : t \in TreesOf(i), f \in ForestsOf(m - i)} :
                i \in 1..m}

\* payloads: the trees of at most MaxParts parts, the root of a tree with
\* children with or without a media type and with or without a body of its own
Payloads ==
  LET trees == UNION {TreesOf(n) : n \in 1..MaxParts}
  IN trees \cup
     {[t EXCEPT !.mimeType = m, !.data = d] :
        t \in {u \in trees : u.parts # <<>>},
        m \in {"multipart/mixed", ""}, d \in {"", "d29ybGQ="}}

\* payloads whose root has a media type outside the multipart family, body
\* data of its own and one or two parts below it
LeafFirstPayloads ==
  {Part(m, "d29ybGQ=", f) :
     m \in {"application/pdf", "text/plain", "TEXT/HTML"},
     f \in ForestsOf(1) \cup ForestsOf(2)}

LeafFirstMessages ==
  {Record("m1", None, None, "", "", Some(t), "snip") : t \in LeafFirstPayloads}

\* parts without body data, a multipart without parts, with and without data
SparseLeaves ==
  {Part("text/plain", "", <<>>), PlainHello, Pdf,
   Part("multipart/mixed", "", <<>>), Part("multipart/mixed", "d29ybGQ=", <<>>)}

RECURSIVE SparseTreesOf(_)
RECURSIVE SparseForestsOf(_)
\* the part trees of exactly n parts over the sparse leaves
SparseTreesOf(n) ==
  IF n = 1 THEN SparseLeaves
  ELSE {Part("multipart/mixed", "", f) : f \in SparseForestsOf(n - 1)}

SparseForestsOf(m) ==
  IF m = 0 THEN {<<>>}
  ELSE UNION {{<<t>> \o f : t \in SparseTreesOf(i), f \in SparseForestsOf(m - i)} :
                i \in 1..m}

\* bare records over trees in which any part may lack body data
SparseMessages ==
  {Record("m1", None, None, "", "", Some(t), "snip") :
     t \in UNION {SparseTreesOf(n) : n \in 1..MaxSparseParts}}

\* bare records over every payload
TreeMessages == {Record("m1", None, None, "", "", Some(t), "snip") : t \in Payloads}

\* the envelopes: each level has its own Subject and body
Labelled(part, subject) == Some(WithHeaders(part, <<Header("Subject", subject)>>))

NestedCores ==
  {Core(id, Labelled(PlainNested, "Nested")) : id \in {"", "mN"}}

CoresOf(tag, part) ==
  {NestedCore(id, Labelled(part, tag), a, d) :
     id \in {"", "m" \o tag},
     a \in {None} \cup {Some(c) : c \in NestedCores},
     d \in {None} \cup {Some(c) : c \in NestedCores}}

EnvelopeMessages ==
  {Record(id, a, d, "", "", payload, "snip") :
     id \in {"", "m0"},
     a \in {None} \cup {Some(c) : c \in CoresOf("A", HtmlHi)},
     d \in {None} \cup {Some(c) : c \in CoresOf("D", PlainWorld)},
     payload \in {None, Labelled(PlainHello, "Outer")}}

\* the header fields toEml knows, in the order it emits them
Fields == <<"From", "To", "Cc", "Bcc", "Subject", "Date">>
FieldValue(name) ==
  CASE name = "From" -> "a@x" [] name = "To" -> "b@x" [] name = "Cc" -> "c@x"
    [] name = "Bcc" -> "d@x" [] name = "Subject" -> "Hi" [] OTHER -> "Mon"

RECURSIVE HeadersFor(_, _)
\* the header list that holds field i and the earlier ones as c says: absent,
\* with an empty value, or with its value; later fields come first in the list
HeadersFor(c, i) ==
  IF i = 0 THEN <<>>
  ELSE (CASE c[i] = "absent" -> <<>>
          [] c[i] = "empty" -> <<Header(Fields[i], "")>>
          [] OTHER -> <<Header(Fields[i], FieldValue(Fields[i]))>>)
       \o HeadersFor(c, i - 1)

HeaderMessages ==
  {Record("m1", None, None, "", "",
          Some(WithHeaders(Part("", "", <<PlainHello>>), HeadersFor(c, Len(Fields)))),
          "snip") :
     c \in [1..Len(Fields) -> {"absent", "empty", "value"}]}

\* the records of the details files
FileRecords == {RecPlain, RecAirbyte, RecData, RecNoBody, RecNoId, RecIdOutsideCore}

Messages ==
  TreeMessages \cup EnvelopeMessages \cup HeaderMessages \cup FileRecords
    \cup LeafFirstMessages \cup SparseMessages

\* The lines of the files are texts.  A record's JSON text is written as the
\* name of the record; "  " is a whitespace-only line and "{oops" a line that
\* is not JSON.
RecordLines == {"RecPlain", "RecAirbyte", "RecData", "RecNoBody", "RecNoId"}
Lines == {"  ", "{oops"} \cup RecordLines
\* lines whose records carry their identifier in different places, or nowhere
EnvelopeLines == {"RecIdOutsideCore", "RecNoId", "RecData", "RecPlain", "RecTwoIds"}

\* lines whose records carry body data that is no base64url of a UTF-8 text
UndecodableLines == {"RecBadChars", "RecBadUtf8", "RecPlain"}

\* line.trim()
trim(line) == IF line = "  " THEN "" ELSE line

\* JSON.parse(trimmed): the record, or None when it throws a SyntaxError
JSONparse(text) ==
  CASE text = "RecPlain" -> Some(RecPlain)
    [] text = "RecAirbyte" -> Some(RecAirbyte)
    [] text = "RecData" -> Some(RecData)
    [] text = "RecNoBody" -> Some(RecNoBody)
    [] text = "RecNoId" -> Some(RecNoId)
    [] text = "RecIdOutsideCore" -> Some(RecIdOutsideCore)
    [] text = "RecTwoIds" -> Some(RecTwoIds)
    [] text = "RecBadChars" -> Some(RecBadChars)
    [] text = "RecBadUtf8" -> Some(RecBadUtf8)
    [] OTHER -> None

\* whether readJsonlFromS3 yields a record for the line
Yields(line) == trim(line) # "" /\ JSONparse(trim(line)) # None

BoundedSeq(S, n) == UNION {[1..k -> S] : k \in 0..n}

RECURSIVE FileSets(_, _, _)
\* the sequences of f files over the lines L that hold at most t lines together
FileSets(L, f, t) ==
  IF f = 0 THEN {<<>>}
  ELSE UNION {{<<file>> \o rest : rest \in FileSets(L, f - 1, t - Len(file))} :
                file \in BoundedSeq(L, t)}

\* the listings of at most maxFiles files that hold at most maxLines lines
Listings(L, maxFiles, maxLines) ==
  UNION {FileSets(L, f, maxLines) : f \in 0..maxFiles}

\* the number of lines of all files that parse to a record
RECURSIVE ParsedIn(_)
ParsedIn(lines) ==
  IF lines = <<>> THEN 0
  ELSE (IF Yields(lines[1]) THEN 1 ELSE 0) + ParsedIn(Tail(lines))

RECURSIVE ParsedCount(_)
ParsedCount(fs) ==
  IF fs = <<>> THEN 0 ELSE ParsedIn(fs[1]) + ParsedCount(Tail(fs))

(***************************************************************************)
(* config.ts and the target key layout                                      *)
(***************************************************************************)
rawFilesPrefix == "raw/raw-files/"
workspaceId == "ws1"

\* `${config.rawFilesPrefix}${config.workspaceId}/gmail/${msgId}.eml`
TargetKey(msgId) == rawFilesPrefix \o workspaceId \o "/gmail/" \o msgId \o ".eml"

Ids == {"m1", "m2"}
TargetKeys == {TargetKey(id) : id \in Ids}

\* the content of a key that holds no object
Absent == ""

(***************************************************************************)
(* The object store's answers.                                              *)
(***************************************************************************)
Response(ok, status, name) == [ok |-> ok, status |-> status, name |-> name]

\* failures of a store command that are not "not found"
StoreFaults == {Response(FALSE, 403, "AccessDenied"), Response(FALSE, 0, "TimeoutError")}

\* the ways a HeadObject on a missing key is answered
NotFounds ==
  {Response(FALSE, 404, "NotFound"), Response(FALSE, 404, "UnknownError"),
   Response(FALSE, 0, "NotFound")}

HeadResponses(content) ==
  (IF content # Absent THEN {Response(TRUE, 200, "")} ELSE NotFounds) \cup StoreFaults

CommandResponses == {Response(TRUE, 200, "")} \cup StoreFaults

(***************************************************************************)
(* processor.ts                                                             *)
(***************************************************************************)
VARIABLES
  files,   \* the details files in listing order, each a sequence of lines
  store,   \* the raw-files objects: target key -> content (Absent if none)
  run,     \* per run of processMessages: its locals and the commands it sent
  puts,    \* per target key: PutObject commands issued and completed
  extraction, \* extractEmail and toEml applied to one message on their own
  listing, \* listJsonlKeys run on its own against a paged listing
  decoding, \* base64UrlDecode applied on its own to one string of encoded data
  sync \* the sync runner: its bucket, its state file and its runs, one after the other

vars == <<files, store, run, puts, extraction, listing, decoding, sync>>

Counters(processed, created, skipped, failed) ==
  [processed |-> processed, created |-> created, skipped |-> skipped,
   failed |-> failed]

\* record.id || _airbyte_data?.id || data?.id || message?.id || messageId || null
MsgId(record) ==
  IF record.id # "" THEN record.id
  ELSE IF record._airbyte_data # None /\ record._airbyte_data[1].id # ""
    THEN record._airbyte_data[1].id
  ELSE IF record.data # None /\ record.data[1].id # "" THEN record.data[1].id
  ELSE IF record.message_id # "" THEN record.message_id
  ELSE record.messageId

\* exists() answering false where the code answers true
exists_AlwaysAbsent(resp) ==
  IF resp.ok THEN "false"
  ELSE IF resp.status = 404 THEN "false"
  ELSE IF resp.name = "NotFound" THEN "false"
  ELSE "throw"

\* exists(): "true", "false", or "throw" when the HeadObject error is rethrown
exists(resp) ==
  IF resp.ok THEN "true"
  ELSE IF resp.status = 404 THEN "false"
  ELSE IF resp.name = "NotFound" THEN "false"
  ELSE "throw"

\* the limit test with > in place of >=
LimitReached_Strict(processed, limit) == processed > limit

\* if (counters.processed >= limit) return counters;
LimitReached(processed, limit) == processed >= limit

\* the upload made whatever dryRun says
Uploads_Always(dryRun) == TRUE

\* if (dryRun) {...} else { await s3.send(new PutObjectCommand(...)) }
Uploads(dryRun) == ~dryRun

\* the dry-run branch counting the previewed record as created
TallyPreview_Created(c) == [c EXCEPT !.created = @ + 1]

\* the dry-run branch: only console.log, the counters are not touched
TallyPreview(c) == c

\* the catch block: counters.failed += 1, then console.warn reads msgId, a
\* const of the try block that is not in scope in the catch block, so the
\* template literal throws a ReferenceError out of the loop
CatchRethrows == TRUE

\* the catch block without counters.failed += 1
Catch_NoCount(r, step) ==
  [r EXCEPT !.cause = step,
            !.pc = IF CatchRethrows THEN "rejected" ELSE "read"]

Catch(r, step) ==
  [r EXCEPT !.counters.failed = @ + 1,
            !.cause = step,
            !.pc = IF CatchRethrows THEN "rejected" ELSE "read"]

IdleRun ==
  [pc |-> "idle", limit |-> Infinity, dryRun |-> FALSE,
   counters |-> Counters(0, 0, 0, 0),
   keys |-> <<>>, fileIdx |-> 0, linePos |-> 0,
   record |-> RecNoId, targetKey |-> "", already |-> "", eml |-> "",
   cause |-> "", gets |-> 0, heads |-> 0, putsSent |-> 0, previews |-> 0,
   warns |-> 0]

Terminated(p) == run[p].pc \in {"returned", "rejected"}

EmptyStore == [k \in TargetKeys |-> Absent]

\* the objects of the bucket under config.prefix, in the order ListObjectsV2
\* returns them, the prefix left out
BucketKeys ==
  <<"run1/a.jsonl", "run1/a.jsonl.airbyte_meta.json", "run1/b.jsonl", "run2/c.jsonl">>

\* entry.key.endsWith("airbyte_meta.json")
endsWithAirbyteMeta(key) == key = "run1/a.jsonl.airbyte_meta.json"

DocumentKeys == {BucketKeys[i] : i \in {j \in 1..Len(BucketKeys) :
                                          ~endsWithAirbyteMeta(BucketKeys[j])}}

\* the sync runner is not running
NoSync ==
  [pc |-> "off", runs |-> 0, bucket |-> <<>>, stateFile |-> {},
   config |-> [seedStateOnly |-> FALSE, processEnabled |-> FALSE,
               latestRunOnly |-> FALSE],
   loaded |-> {}, processed |-> {}, newEntries |-> <<>>, idx |-> 0,
   fetched |-> {}, documents |-> [k \in DocumentKeys |-> 0]]

\* base64UrlDecode is not being applied on its own
NoDecoding ==
  [pc |-> "off", text |-> None, withPadding |-> FALSE, data |-> <<>>,
   padded |-> <<>>, result |-> <<>>]

\* listJsonlKeys is not being run on its own
NoListing ==
  [pc |-> "off", pages |-> <<>>, continuationToken |-> 0, keys |-> <<>>, sent |-> 0]

\* no message is being extracted on its own
NoExtraction ==
  [pc |-> "off", msg |-> RecNoId, part |-> None, email |-> Thrown(""), eml |-> ""]

\* the store an earlier run over a file holding RecPlain has left
StoreAfterRecPlain ==
  [EmptyStore EXCEPT ![TargetKey(MsgId(RecPlain))] = toEml(extractEmail(RecPlain))]

\* one invocation, against an empty raw-files prefix or one an earlier run filled
Init ==
  /\ files \in Listings(Lines, MaxFiles, MaxLines)
  /\ store \in {EmptyStore, StoreAfterRecPlain}
  /\ run = [p \in Runs |-> IF p = 1 THEN IdleRun ELSE [IdleRun EXCEPT !.pc = "off"]]
  /\ puts = [k \in TargetKeys |-> [issued |-> 0, ok |-> 0]]
  /\ extraction = NoExtraction
  /\ listing = NoListing
  /\ decoding = NoDecoding
  /\ sync = NoSync

\* one invocation over files of enveloped and bare records
InitEnvelopes ==
  /\ files \in Listings(EnvelopeLines, MaxFiles, MaxLines)
  /\ store \in {EmptyStore, StoreAfterRecPlain}
  /\ run = [p \in Runs |-> IF p = 1 THEN IdleRun ELSE [IdleRun EXCEPT !.pc = "off"]]
  /\ puts = [k \in TargetKeys |-> [issued |-> 0, ok |-> 0]]
  /\ extraction = NoExtraction
  /\ listing = NoListing
  /\ decoding = NoDecoding
  /\ sync = NoSync

\* one invocation over files that hold records with undecodable body data
InitUndecodable ==
  /\ files \in Listings(UndecodableLines, MaxFiles, MaxLines)
  /\ store = EmptyStore
  /\ run = [p \in Runs |-> IF p = 1 THEN IdleRun ELSE [IdleRun EXCEPT !.pc = "off"]]
  /\ puts = [k \in TargetKeys |-> [issued |-> 0, ok |-> 0]]
  /\ extraction = NoExtraction
  /\ listing = NoListing
  /\ decoding = NoDecoding
  /\ sync = NoSync

\* MaxRuns invocations, one after the other, over the same files, the first
\* against an empty raw-files prefix
InitReruns ==
  /\ files \in Listings(Lines, MaxFiles, MaxRerunLines)
  /\ store = EmptyStore
  /\ run = [p \in Runs |-> IdleRun]
  /\ puts = [k \in TargetKeys |-> [issued |-> 0, ok |-> 0]]
  /\ extraction = NoExtraction
  /\ listing = NoListing
  /\ decoding = NoDecoding
  /\ sync = NoSync

\* index.ts main(): one invocation of processMessages(s3, config, opts)
StartRun(p) ==
  /\ run[p].pc = "idle"
  /\ \A q \in Runs : q < p => Terminated(q)
  /\ \E limit \in (0..MaxLimit) \cup {Infinity}, dryRun \in BOOLEAN :
       run' = [run EXCEPT ![p] = [@ EXCEPT !.pc = "list", !.limit = limit,
                                           !.dryRun = dryRun]]
  /\ UNCHANGED <<files, store, puts, extraction, listing, decoding, sync>>

\* MaxRuns invocations started independently of each other (separate
\* processes against the same bucket), the raw-files prefix empty
InitConcurrent ==
  /\ files \in Listings(Lines, MaxFiles, MaxConcurrentLines)
  /\ store = EmptyStore
  /\ run = [p \in Runs |-> IdleRun]
  /\ puts = [k \in TargetKeys |-> [issued |-> 0, ok |-> 0]]
  /\ extraction = NoExtraction
  /\ listing = NoListing
  /\ decoding = NoDecoding
  /\ sync = NoSync

\* index.ts main() of a process that does not wait for the other processes
StartConcurrent(p) ==
  /\ run[p].pc = "idle"
  /\ \E limit \in (0..MaxLimit) \cup {Infinity}, dryRun \in BOOLEAN :
       run' = [run EXCEPT ![p] = [@ EXCEPT !.pc = "list", !.limit = limit,
                                           !.dryRun = dryRun]]
  /\ UNCHANGED <<files, store, puts, extraction, listing, decoding, sync>>

\* a message handed to extractEmail, no run of processMessages around it
InitExtract ==
  /\ files = <<>>
  /\ store = EmptyStore
  /\ run = [p \in Runs |-> [IdleRun EXCEPT !.pc = "off"]]
  /\ puts = [k \in TargetKeys |-> [issued |-> 0, ok |-> 0]]
  /\ extraction \in {[NoExtraction EXCEPT !.pc = "input", !.msg = m] : m \in Messages}
  /\ listing = NoListing
  /\ decoding = NoDecoding
  /\ sync = NoSync

\* const email = extractEmail(record), with its local part
CallExtractEmail ==
  /\ extraction.pc = "input"
  /\ LET email == extractEmail(extraction.msg)
     IN extraction' =
          [extraction EXCEPT
             !.part = SelectPart(extraction.msg),
             !.email = email,
             !.pc = IF email.error # "" THEN "thrown" ELSE "extracted"]
  /\ UNCHANGED <<files, store, run, puts, listing, decoding, sync>>

\* const eml = toEml(email)
CallToEml ==
  /\ extraction.pc = "extracted"
  /\ extraction' = [extraction EXCEPT !.eml = toEml(extraction.email),
                                      !.pc = "serialized"]
  /\ UNCHANGED <<files, store, run, puts, listing, decoding, sync>>

(***************************************************************************)
(* base64UrlDecode applied to one string: the base64url encoding, with or   *)
(* without padding, of a text (the body.data the Gmail API produces), or    *)
(* any short string over characters inside and outside the alphabet.        *)
(***************************************************************************)
\* NUL, LF, ">", "?", e acute, the euro sign, U+FEFF and an emoji: one to four
\* bytes each, control characters and the byte order mark included
TextCodePoints == {0, 10, 62, 63, 233, 8364, 65279, 128512}

Texts == BoundedSeq(TextCodePoints, MaxTextLen)

\* the bytes of one code point in UTF-8
Utf8Bytes(cp) ==
  IF cp < 128 THEN <<cp>>
  ELSE IF cp < 2048 THEN <<192 + (cp \div 64), 128 + (cp % 64)>>
  ELSE IF cp < 65536
    THEN <<224 + (cp \div 4096), 128 + ((cp \div 64) % 64), 128 + (cp % 64)>>
  ELSE <<240 + (cp \div 262144), 128 + ((cp \div 4096) % 64),
         128 + ((cp \div 64) % 64), 128 + (cp % 64)>>

RECURSIVE Utf8Encode(_)
\* the bytes of a text in UTF-8
Utf8Encode(text) ==
  IF text = <<>> THEN <<>> ELSE Utf8Bytes(Head(text)) \o Utf8Encode(Tail(text))

\* the character of the URL-safe alphabet for six bits
UrlSafeChar(v) == IF v = 62 THEN "-" ELSE IF v = 63 THEN "_" ELSE Base64Alphabet[v + 1]

RECURSIVE Base64UrlEncode(_, _)
\* the base64url encoding of bytes, the trailing "=" written or left out
Base64UrlEncode(b, withPadding) ==
  IF Len(b) >= 3
    THEN <<UrlSafeChar(b[1] \div 4), UrlSafeChar((b[1] % 4) * 16 + (b[2] \div 16)),
           UrlSafeChar((b[2] % 16) * 4 + (b[3] \div 64)), UrlSafeChar(b[3] % 64)>>
         \o Base64UrlEncode(SubSeq(b, 4, Len(b)), withPadding)
  ELSE IF Len(b) = 2
    THEN <<UrlSafeChar(b[1] \div 4), UrlSafeChar((b[1] % 4) * 16 + (b[2] \div 16)),
           UrlSafeChar((b[2] % 16) * 4)>>
         \o (IF withPadding THEN <<"=">> ELSE <<>>)
  ELSE IF Len(b) = 1
    THEN <<UrlSafeChar(b[1] \div 4), UrlSafeChar((b[1] % 4) * 16)>>
         \o (IF withPadding THEN <<"=", "=">> ELSE <<>>)
  ELSE <<>>

\* characters of the alphabet, the padding character and one outside both
DataChars == {"a", "G", "w", "-", "_", "=", "!"}

InitDecode ==
  /\ files = <<>>
  /\ store = EmptyStore
  /\ run = [p \in Runs |-> [IdleRun EXCEPT !.pc = "off"]]
  /\ puts = [k \in TargetKeys |-> [issued |-> 0, ok |-> 0]]
  /\ extraction = NoExtraction
  /\ listing = NoListing
  /\ decoding \in
       {[NoDecoding EXCEPT !.pc = "input", !.text = Some(x), !.withPadding = w,
                           !.data = Base64UrlEncode(Utf8Encode(x), w)] :
          x \in Texts, w \in BOOLEAN}
       \cup {[NoDecoding EXCEPT !.pc = "input", !.data = d] :
               d \in BoundedSeq(DataChars, MaxDataLen)}
  /\ sync = NoSync

\* base64UrlDecode(data)
CallBase64UrlDecode ==
  /\ decoding.pc = "input"
  /\ decoding' = [decoding EXCEPT !.pc = "decoded",
                                  !.padded = padded(decoding.data),
                                  !.result = DecodeChars(decoding.data)]
  /\ UNCHANGED <<files, store, run, puts, extraction, listing, sync>>

(***************************************************************************)
(* The sync runner: run() lists the objects Airbyte wrote, leaves out those *)
(* its state file names, fetches and processes the others one by one and    *)
(* writes the state file.  The state file is the set of keys in it (empty   *)
(* when the file is missing or unreadable).                                 *)
(***************************************************************************)
\* S3Entry
Entry(key, lastModified) == [key |-> key, lastModified |-> lastModified]

LastModifiedOf(key) == IF endsWithAirbyteMeta(key) THEN {1} ELSE {1, 2}

RECURSIVE BucketsFrom(_)
\* the buckets that hold some of the keys from the i-th on
BucketsFrom(i) ==
  IF i > Len(BucketKeys) THEN {<<>>}
  ELSE BucketsFrom(i + 1) \cup
       {<<Entry(BucketKeys[i], t)>> \o rest :
          t \in LastModifiedOf(BucketKeys[i]), rest \in BucketsFrom(i + 1)}

\* not an airbyte_meta.json object
IsDocument(entry) == ~endsWithAirbyteMeta(entry.key)

\* listObjects(): one ListObjectsV2 answer without the airbyte_meta.json keys
listObjects(bucket) == SelectSeq(bucket, IsDocument)

\* extractRunFolder(key): the first segment of the key after the prefix
extractRunFolder(key) ==
  IF key \in {"run1/a.jsonl", "run1/a.jsonl.airbyte_meta.json", "run1/b.jsonl"}
    THEN "run1" ELSE "run2"

\* filterLatestRun(entries): the entries of the run folder with the newest
\* object, the folder met first when two are as new
filterLatestRun(entries, latestRunOnly) ==
  IF ~latestRunOnly \/ entries = <<>> THEN entries
  ELSE
    LET folders == {extractRunFolder(entries[i].key) : i \in 1..Len(entries)}
        of(f) == {i \in 1..Len(entries) : extractRunFolder(entries[i].key) = f}
        newest(f) == CHOOSE t \in {entries[i].lastModified : i \in of(f)} :
                       \A i \in of(f) : entries[i].lastModified <= t
        first(f) == CHOOSE i \in of(f) : \A j \in of(f) : i <= j
        latestFolder ==
          CHOOSE f \in folders :
            \A g \in folders :
              \/ newest(f) > newest(g)
              \/ newest(f) = newest(g) /\ first(f) <= first(g)
        InLatest(entry) == extractRunFolder(entry.key) = latestFolder
    IN SelectSeq(entries, InLatest)

\* loadProcessedKeys(): new Set(parsed)
loadProcessedKeys(stateFile) == stateFile

\* entries.filter(entry => !processed.has(entry.key)), as keys
NewKeys(entries, processed) ==
  LET IsNew(entry) == entry.key \notin processed
      new == SelectSeq(entries, IsNew)
  IN [i \in 1..Len(new) |-> new[i].key]

InitSync ==
  /\ files = <<>>
  /\ store = EmptyStore
  /\ run = [p \in Runs |-> [IdleRun EXCEPT !.pc = "off"]]
  /\ puts = [k \in TargetKeys |-> [issued |-> 0, ok |-> 0]]
  /\ extraction = NoExtraction
  /\ listing = NoListing
  /\ decoding = NoDecoding
  /\ sync \in {[NoSync EXCEPT !.pc = "idle", !.bucket = b] : b \in BucketsFrom(1)}

\* run() is called: a new process with its configuration from the environment
StartSync ==
  /\ sync.pc \in {"idle", "done", "failed"}
  /\ sync.runs < MaxSyncRuns
  /\ \E skipTrigger, seedStateOnly, processEnabled, latestRunOnly \in BOOLEAN :
       sync' = [sync EXCEPT
                  !.pc = IF skipTrigger THEN "list" ELSE "trigger",
                  !.runs = @ + 1,
                  !.config = [seedStateOnly |-> seedStateOnly,
                              processEnabled |-> processEnabled,
                              latestRunOnly |-> latestRunOnly],
                  !.loaded = {}, !.processed = {}, !.newEntries = <<>>,
                  !.idx = 0, !.fetched = {}]
  /\ UNCHANGED <<files, store, run, puts, extraction, listing, decoding>>

\* await triggerAndWait(): the job succeeds, or the call throws
TriggerAndWait ==
  /\ sync.pc = "trigger"
  /\ \E resp \in CommandResponses :
       sync' = [sync EXCEPT !.pc = IF resp.ok THEN "list" ELSE "failed"]
  /\ UNCHANGED <<files, store, run, puts, extraction, listing, decoding>>

\* from `await listObjects()` to the first getObjectBuffer, or to the end of
\* run() when the state is only seeded, ingestion is off or nothing is new
ListNewEntries ==
  /\ sync.pc = "list"
  /\ \E resp \in CommandResponses :
       LET entries == filterLatestRun(listObjects(sync.bucket),
                                      sync.config.latestRunOnly)
           processed == loadProcessedKeys(sync.stateFile)
           newEntries == NewKeys(entries, processed)
           all == processed \cup {newEntries[i] : i \in 1..Len(newEntries)}
       IN sync' =
            IF ~resp.ok THEN [sync EXCEPT !.pc = "failed"]
            ELSE IF sync.config.seedStateOnly \/ ~sync.config.processEnabled
                    \/ newEntries = <<>>
              THEN [sync EXCEPT !.pc = "done", !.loaded = processed,
                                !.newEntries = newEntries, !.processed = all,
                                !.stateFile = all]
            ELSE [sync EXCEPT !.pc = "get", !.loaded = processed,
                              !.newEntries = newEntries, !.processed = processed,
                              !.idx = 1]
  /\ UNCHANGED <<files, store, run, puts, extraction, listing, decoding>>

\* const data = await getObjectBuffer(key)
GetObjectBuffer ==
  /\ sync.pc = "get"
  /\ \E resp \in CommandResponses :
       sync' = [sync EXCEPT !.fetched = @ \cup {sync.newEntries[sync.idx]},
                            !.pc = IF resp.ok THEN "meta" ELSE "failed"]
  /\ UNCHANGED <<files, store, run, puts, extraction, listing, decoding>>

\* const airbyteMeta = await maybeGetAirbyteMeta(key): the metadata or null
MaybeGetAirbyteMeta ==
  /\ sync.pc = "meta"
  /\ \E resp \in CommandResponses : sync' = [sync EXCEPT !.pc = "process"]
  /\ UNCHANGED <<files, store, run, puts, extraction, listing, decoding>>

\* await processDocument({filename: key, data}); processed.add(key); then the
\* next entry, or saveProcessedKeys(processed) after the last one
ProcessDocument ==
  /\ sync.pc = "process"
  /\ \E ok \in BOOLEAN :
       LET key == sync.newEntries[sync.idx]
           processed == sync.processed \cup {key}
       IN sync' =
            IF ~ok THEN [sync EXCEPT !.pc = "failed"]
            ELSE IF sync.idx < Len(sync.newEntries)
              THEN [sync EXCEPT !.documents[key] = @ + 1, !.processed = processed,
                                !.idx = @ + 1, !.pc = "get"]
            ELSE [sync EXCEPT !.documents[key] = @ + 1, !.processed = processed,
                              !.stateFile = processed, !.pc = "done"]
  /\ UNCHANGED <<files, store, run, puts, extraction, listing, decoding>>

(***************************************************************************)
(* jsonlReader.ts: listJsonlKeys against a listing the store serves in     *)
(* pages.  An entry is its Key ("" for an entry without Key); the           *)
(* continuation token handed out with page i is i, undefined is 0.          *)
(***************************************************************************)
ListedKeys == {"a.jsonl", "B.JSONL", "c.json", ""}

\* s.endsWith(".jsonl") on the lower-cased keys the model uses
endsWithJsonl(s) == s \in {"a.jsonl", "b.jsonl"}

\* c.Key && c.Key.toLowerCase().endsWith(".jsonl")
KeepsKey(key) == key # "" /\ endsWithJsonl(toLowerCase(key))

RECURSIVE PushJsonl(_, _)
\* res.Contents?.forEach(c => { if (...) keys.push(c.Key) })
PushJsonl(keys, contents) ==
  IF contents = <<>> THEN keys
  ELSE PushJsonl(IF KeepsKey(contents[1]) THEN Append(keys, contents[1]) ELSE keys,
                 Tail(contents))

\* the answer of the store to ListObjectsV2 with the given ContinuationToken
ListObjectsV2(pages, token) ==
  [Contents |-> pages[token + 1],
   IsTruncated |-> token + 1 < Len(pages),
   NextContinuationToken |-> IF token + 1 < Len(pages) THEN token + 1 ELSE 0]

\* the listing given up after the first page
NextToken_Stop(res) == 0

\* res.IsTruncated ? res.NextContinuationToken : undefined
NextToken(res) == IF res.IsTruncated THEN res.NextContinuationToken ELSE 0

InitListing ==
  /\ files = <<>>
  /\ store = EmptyStore
  /\ run = [p \in Runs |-> [IdleRun EXCEPT !.pc = "off"]]
  /\ puts = [k \in TargetKeys |-> [issued |-> 0, ok |-> 0]]
  /\ extraction = NoExtraction
  /\ listing \in {[NoListing EXCEPT !.pc = "send", !.pages = ps] :
                    ps \in Listings(ListedKeys, MaxPages, MaxListedKeys) \ {<<>>}}
  /\ decoding = NoDecoding
  /\ sync = NoSync

\* one turn of the do-while loop of listJsonlKeys
ListPage ==
  /\ listing.pc = "send"
  /\ \E resp \in CommandResponses :
       listing' =
         IF ~resp.ok
           THEN [listing EXCEPT !.pc = "rejected", !.sent = @ + 1]
         ELSE LET res == ListObjectsV2(listing.pages, listing.continuationToken)
              IN [listing EXCEPT
                    !.sent = @ + 1,
                    !.keys = PushJsonl(@, res.Contents),
                    !.continuationToken = NextToken(res),
                    !.pc = IF NextToken(res) # 0 THEN "send" ELSE "returned"]
  /\ UNCHANGED <<files, store, run, puts, extraction, decoding, sync>>

\* the keys visited last to first
ListingOrder_Reversed(n) == [i \in 1..n |-> n + 1 - i]

\* for (const key of keys): the keys are visited in the order listJsonlKeys
\* returned them
ListingOrder(n) == [i \in 1..n |-> i]

\* const keys = await listJsonlKeys(...)
List(p) ==
  /\ run[p].pc = "list"
  /\ \E resp \in CommandResponses :
       run' = [run EXCEPT ![p] =
         IF ~resp.ok THEN [@ EXCEPT !.pc = "rejected", !.cause = "list"]
         ELSE IF Len(files) = 0 THEN [@ EXCEPT !.pc = "returned"]
         ELSE [@ EXCEPT !.pc = "open", !.fileIdx = 1,
                        !.keys = ListingOrder(Len(files))]]
  /\ UNCHANGED <<files, store, puts, extraction, listing, decoding, sync>>

\* readJsonlFromS3: await s3.send(new GetObjectCommand(...)) for the next key
Open(p) ==
  /\ run[p].pc = "open"
  /\ \E resp \in CommandResponses :
       run' = [run EXCEPT ![p] =
         IF ~resp.ok THEN [@ EXCEPT !.pc = "rejected", !.cause = "get",
                                    !.gets = @ + 1]
         ELSE [@ EXCEPT !.pc = "read", !.linePos = 1, !.gets = @ + 1]]
  /\ UNCHANGED <<files, store, puts, extraction, listing, decoding, sync>>

\* the loop body from the yielded record to its first await (lines 39-58)
Attempt(r, record) ==
  IF LimitReached(r.counters.processed, r.limit) THEN [r EXCEPT !.pc = "returned"]
  ELSE IF MsgId(record) = ""
    THEN [r EXCEPT !.counters.processed = @ + 1, !.counters.failed = @ + 1]
  ELSE [r EXCEPT !.counters.processed = @ + 1, !.record = record,
                 !.targetKey = TargetKey(MsgId(record)), !.pc = "probe"]

\* a line counted as a failed record instead of being passed over
SkipLine_CountsFailed(r, line) ==
  [r EXCEPT !.linePos = @ + 1,
            !.counters.processed = @ + (IF trim(line) = "" THEN 0 ELSE 1),
            !.counters.failed = @ + (IF trim(line) = "" THEN 0 ELSE 1)]

\* a line that yields no record: `if (!trimmed) continue`, or JSON.parse threw
\* and the catch block of the generator warned; the for-await goes on
SkipLine(r, line) ==
  [r EXCEPT !.linePos = @ + 1,
            !.warns = @ + (IF trim(line) = "" THEN 0 ELSE 1)]

\* readJsonlFromS3 pulls the next line of the open file; a parsed record is
\* yielded to the loop body of processMessages
ReadLine(p) ==
  /\ run[p].pc = "read"
  /\ LET r == run[p]
         file == files[r.keys[r.fileIdx]]
     IN run' = [run EXCEPT ![p] =
          IF r.linePos > Len(file)
            THEN IF r.fileIdx < Len(r.keys)
                   THEN [r EXCEPT !.fileIdx = @ + 1, !.pc = "open"]
                   ELSE [r EXCEPT !.pc = "returned"]
          ELSE IF Yields(file[r.linePos])
            THEN Attempt([r EXCEPT !.linePos = @ + 1],
                         JSONparse(trim(file[r.linePos]))[1])
          ELSE SkipLine(r, file[r.linePos])]
  /\ UNCHANGED <<files, store, puts, extraction, listing, decoding, sync>>

\* after exists() answered false: extractEmail, toEml, preview log, dry-run test
Publish(r) ==
  LET email == extractEmail(r.record)
  IN IF email.error # "" THEN Catch(r, "extract")
     ELSE IF Uploads(r.dryRun) THEN [r EXCEPT !.eml = toEml(email), !.pc = "put"]
     ELSE [r EXCEPT !.previews = @ + 1, !.counters = TallyPreview(@),
                    !.pc = "read"]

\* the record published although the target exists
Skip_Republish(r) == Publish(r)

\* if (already) { counters.skipped += 1; continue; }
Skip(r) == [r EXCEPT !.counters.skipped = @ + 1, !.pc = "read"]

\* const already = await exists(s3, config.bucket, targetKey)
Probe(p) ==
  /\ run[p].pc = "probe"
  /\ \E resp \in HeadResponses(store[run[p].targetKey]) :
       LET r == [run[p] EXCEPT !.heads = @ + 1, !.already = exists(resp)]
       IN run' = [run EXCEPT ![p] =
            CASE exists(resp) = "true" -> Skip(r)
              [] exists(resp) = "throw" -> Catch(r, "probe")
              [] OTHER -> Publish(r)]
  /\ UNCHANGED <<files, store, puts, extraction, listing, decoding, sync>>

\* await s3.send(new PutObjectCommand(...)); counters.created += 1
Put(p) ==
  /\ run[p].pc = "put"
  /\ \E resp \in CommandResponses :
       LET r == [run[p] EXCEPT !.putsSent = @ + 1]
           k == r.targetKey
       IN IF resp.ok
            THEN /\ store' = [store EXCEPT ![k] = r.eml]
                 /\ puts' = [puts EXCEPT ![k].issued = @ + 1, ![k].ok = @ + 1]
                 /\ run' = [run EXCEPT ![p] =
                              [r EXCEPT !.counters.created = @ + 1, !.pc = "read"]]
            ELSE /\ store' = store
                 /\ puts' = [puts EXCEPT ![k].issued = @ + 1]
                 /\ run' = [run EXCEPT ![p] = Catch(r, "put")]
  /\ UNCHANGED <<files, extraction, listing, decoding, sync>>

Next ==
  \E p \in Runs :
    \/ StartRun(p)
    \/ List(p)
    \/ Open(p)
    \/ ReadLine(p)
    \/ Probe(p)
    \/ Put(p)

Spec == Init /\ [][Next]_vars

SpecReruns == InitReruns /\ [][Next]_vars

SpecEnvelopes == InitEnvelopes /\ [][Next]_vars

SpecUndecodable == InitUndecodable /\ [][Next]_vars

NextExtract == CallExtractEmail \/ CallToEml

SpecExtract == InitExtract /\ [][NextExtract]_vars

NextSync ==
  \/ StartSync
  \/ TriggerAndWait
  \/ ListNewEntries
  \/ GetObjectBuffer
  \/ MaybeGetAirbyteMeta
  \/ ProcessDocument

SpecSync == InitSync /\ [][NextSync]_vars

NextDecode == CallBase64UrlDecode

SpecDecode == InitDecode /\ [][NextDecode]_vars

NextListing == ListPage

SpecListing == InitListing /\ [][NextListing]_vars

\* the steps of processes that run at the same time: every await is a point
\* where another process may take its step
NextConcurrent ==
  \E p \in Runs :
    \/ StartConcurrent(p)
    \/ List(p)
    \/ Open(p)
    \/ ReadLine(p)
    \/ Probe(p)
    \/ Put(p)

SpecConcurrent == InitConcurrent /\ [][NextConcurrent]_vars

(***************************************************************************)
(* Properties                                                               *)
(***************************************************************************)
Min(a, b) == IF a <= b THEN a ELSE b

RECURSIVE CreatedBy(_)
\* the created counts of a set of runs, added up
CreatedBy(ps) ==
  IF ps = {} THEN 0
  ELSE LET p == CHOOSE q \in ps : TRUE
       IN run[p].counters.created + CreatedBy(ps \ {p})

RECURSIVE WrittenTo(_)
\* the completed PutObject commands of a set of keys, added up
WrittenTo(ks) ==
  IF ks = {} THEN 0
  ELSE LET k == CHOOSE j \in ks : TRUE
       IN puts[k].ok + WrittenTo(ks \ {k})

NoLimitNoDryRun(p) == run[p].limit = Infinity /\ ~run[p].dryRun

C3_RecordErrorNeverAborts ==
  \A p \in Runs : run[p].pc = "rejected" => run[p].cause \in {"list", "get"}

Tallied(p) ==
  run[p].counters.created + run[p].counters.skipped + run[p].counters.failed
    + run[p].previews

C5_LimitBoundsProcessed ==
  \A p \in Runs :
    run[p].limit # Infinity =>
      /\ run[p].counters.processed <= run[p].limit
      /\ run[p].pc = "returned" =>
           run[p].counters.processed = Min(run[p].limit, ParsedCount(files))
      /\ run[p].limit = 0 => run[p].heads = 0 /\ run[p].putsSent = 0

\* C5 witness: a run that returned at its limit with more records available.
C5_Witness ==
  \E p \in Runs :
    /\ run[p].limit \in 1..MaxLimit
    /\ ParsedCount(files) > run[p].limit
    /\ run[p].pc = "returned"
    /\ run[p].counters.processed = run[p].limit

\* run p is between records (waiting for a line or a file) with its numeric
\* limit already reached
AtLimit(p) ==
  /\ run[p].pc \in {"open", "read"}
  /\ run[p].limit # Infinity
  /\ run[p].counters.processed >= run[p].limit

\* C6 as stated: once processed has reached the limit (a limit of at least 1)
\* no further line is pulled from the record stream and no later file is
\* opened before the run returns.
C6_NoReadAfterLimit ==
  [][\A p \in Runs :
       (AtLimit(p) /\ run[p].limit >= 1) =>
         /\ run'[p].linePos = run[p].linePos
         /\ run'[p].fileIdx = run[p].fileIdx
         /\ run'[p].gets = run[p].gets]_vars

\* C6, amended: once processed has reached the limit no further record is
\* attempted (no HeadObject, no PutObject, no counter changes), but the stream
\* is still read, and later files are still opened, until one more record is
\* yielded or the listing is exhausted; the run returns on that record.
C6_NoAttemptAfterLimit ==
  [][\A p \in Runs :
       AtLimit(p) =>
         /\ run'[p].heads = run[p].heads
         /\ run'[p].putsSent = run[p].putsSent
         /\ run'[p].counters = run[p].counters
         /\ run'[p].pc \in {"open", "read", "returned", "rejected"}
         /\ (/\ run[p].pc = "read"
             /\ run[p].linePos <= Len(files[run[p].keys[run[p].fileIdx]])
             /\ Yields(files[run[p].keys[run[p].fileIdx]][run[p].linePos]))
            => run'[p].pc = "returned"]_vars

\* C6 witness: the limit was reached in the first file, the second file was
\* opened and a line of it pulled before the run returned.
C6_Witness ==
  \E p \in Runs :
    /\ run[p].limit \in 1..MaxLimit
    /\ Len(files) = 2 /\ ParsedIn(files[1]) = run[p].limit
    /\ run[p].counters.processed = run[p].limit
    /\ run[p].pc = "returned"
    /\ run[p].fileIdx = 2 /\ run[p].linePos >= 2 /\ run[p].gets = 2

Active(p) == run[p].pc \in {"list", "open", "read", "probe", "put"}

\* C8: in dry-run no PutObject is issued and every step of the run leaves the
\* objects of the store as they were.
C8_DryRunWritesNothing ==
  /\ [](\A p \in Runs : run[p].dryRun => run[p].putsSent = 0)
  /\ [][(\E p \in Runs : Active(p) /\ run[p].dryRun) =>
          store' = store /\ puts' = puts]_vars

\* C8 witness: a dry-run over a store that holds an object of an earlier run,
\* returning after it skipped one record and previewed another.
C8_Witness ==
  \E p \in Runs :
    /\ run[p].dryRun /\ run[p].pc = "returned"
    /\ run[p].previews >= 1 /\ run[p].counters.skipped >= 1
    /\ \E k \in TargetKeys : store[k] # Absent

\* C9: a probe that finds the target counts the record skipped and sends no
\* PutObject; an object once stored is never overwritten; a PutObject is only
\* in flight for a key whose probe for that record answered absent.
C9_ExistingTargetSkipped ==
  /\ [](\A p \in Runs :
          run[p].pc = "put" =>
            run[p].already = "false" /\ store[run[p].targetKey] = Absent)
  /\ [][/\ \A k \in TargetKeys : store[k] # Absent => store'[k] = store[k]
        /\ \A p \in Runs :
             (/\ run[p].pc = "probe"
              /\ run'[p].heads = run[p].heads + 1
              /\ run'[p].already = "true")
             => /\ run'[p].counters.skipped = run[p].counters.skipped + 1
                /\ run'[p].counters.created = run[p].counters.created
                /\ run'[p].counters.failed = run[p].counters.failed
                /\ run'[p].pc = "read"
                /\ run'[p].putsSent = run[p].putsSent
                /\ store' = store]_vars

\* C9 witness: a record whose key another record with other content had created
\* was skipped and the object still has the first content.
C9_Witness ==
  \E p \in Runs :
    /\ run[p].counters.skipped >= 1
    /\ run[p].already = "true"
    /\ store[run[p].targetKey] # Absent
    /\ store[run[p].targetKey] # toEml(extractEmail(run[p].record))
    /\ extractEmail(run[p].record).error = ""

\* C10 as stated: a probe failure other than not-found makes that one record
\* failed and the run continues with the next record.
C10_ProbeFailureContinues ==
  \A p \in Runs :
    run[p].cause = "probe" =>
      /\ run[p].counters.failed >= 1
      /\ run[p].pc # "rejected"

\* C11 as stated: a record whose extraction fails (no body, no id in the core)
\* is counted failed and never skipped, even when its target key holds an
\* object: the probe comes after extraction and serialization.
C11_ExtractionFailureNeverSkipped ==
  [][\A p \in Runs :
       (/\ run[p].pc = "probe"
        /\ extractEmail(run[p].record).error # ""
        /\ run'[p] # run[p])
       => /\ run'[p].counters.skipped = run[p].counters.skipped
          /\ run'[p].counters.failed = run[p].counters.failed + 1]_vars

\* C12: runs that interleave are not kept apart on a target key.  What does
\* hold of them: a PutObject is only in flight from a run whose own probe of
\* that record answered absent (whatever another run wrote since), every
\* completed PutObject is counted created by the run that sent it, and a key is
\* written at most once by each run.
C12_CheckThenActPerRun ==
  /\ \A p \in Runs : run[p].pc = "put" => run[p].already = "false"
  /\ CreatedBy(Runs) = WrittenTo(TargetKeys)
  /\ \A k \in TargetKeys :
       puts[k].ok <= Cardinality({p \in Runs : run[p].counters.created >= 1})

\* C12 witness: both runs probed the same absent key, both sent PutObject to it
\* and both counted the record created.
C12_Witness ==
  \E k \in TargetKeys :
    /\ puts[k].issued = 2 /\ puts[k].ok = 2
    /\ \A p \in {1, 2} :
         /\ run[p].targetKey = k /\ run[p].already = "false"
         /\ run[p].heads = 1 /\ run[p].putsSent = 1
         /\ run[p].counters.created = 1

\* the line run p is about to pull from its open file
NextLine(p) == files[run[p].keys[run[p].fileIdx]][run[p].linePos]

\* C13: a blank line and a line that does not parse are passed over without
\* ending the stream and without touching a counter (the malformed one with a
\* warning, the blank one silently); lines are pulled one at a time in file
\* order and a line that parses is yielded as its record; a run without limit
\* that returns has processed = the number of lines that parse.
C13_MalformedLineSkipped ==
  /\ [](\A p \in Runs :
          (run[p].pc = "returned" /\ run[p].limit = Infinity)
            => run[p].counters.processed = ParsedCount(files))
  /\ [][\A p \in Runs :
          (/\ run[p].pc = "read"
           /\ run[p].linePos <= Len(files[run[p].keys[run[p].fileIdx]])
           /\ run'[p] # run[p])
          => /\ run'[p].linePos = run[p].linePos + 1
             /\ run'[p].fileIdx = run[p].fileIdx
             /\ JSONparse(trim(NextLine(p))) = None =>
                  /\ run'[p].counters = run[p].counters
                  /\ run'[p].pc = "read"
                  /\ run'[p].warns =
                       run[p].warns + (IF NextLine(p) = "  " THEN 0 ELSE 1)
             /\ JSONparse(trim(NextLine(p))) # None =>
                  /\ run'[p].warns = run[p].warns
                  /\ run[p].counters.processed < run[p].limit =>
                       run'[p].counters.processed = run[p].counters.processed + 1
                  /\ run'[p].pc = "probe" =>
                       run'[p].record = JSONparse(trim(NextLine(p)))[1]]_vars

\* C13 witness: a file whose first line is malformed and whose second line
\* parses, read to its end by a run that warned once and processed one record.
C13_Witness ==
  \E p \in Runs :
    /\ run[p].pc = "returned" /\ run[p].limit = Infinity
    /\ Len(files) >= 1 /\ Len(files[1]) = 2
    /\ files[1][1] = "{oops" /\ files[1][2] \in RecordLines
    /\ run[p].warns = 1 /\ run[p].counters.processed = 1

\* C14 as stated: for a record with no identifier in its unwrapped core no
\* existence probe is issued (it is counted failed at the identifier lookup of
\* processMessages, which accepts exactly the records extraction accepts).
C14_NoProbeWithoutCoreId ==
  [][\A p \in Runs :
       run'[p].heads = run[p].heads + 1 => Unwrap(run[p].record).id # ""]_vars

\* C15: extraction unwraps one envelope level: the core is _airbyte_data when
\* present, else data when present, else the record itself; identifier,
\* Subject and body are those of that level (each level of the enveloped
\* messages has its own), never those of an envelope nested inside the core,
\* and a missing identifier at that level is an error even when the record or
\* a nested envelope has one.
C15_UnwrapOneLevel ==
  (extraction.pc \in {"extracted", "thrown", "serialized"}
     /\ extraction.msg \in EnvelopeMessages)
  => LET m == extraction.msg
         e == extraction.email
         level == IF m._airbyte_data # None THEN "A"
                  ELSE IF m.data # None THEN "D" ELSE "0"
         id == CASE level = "A" -> m._airbyte_data[1].id
                 [] level = "D" -> m.data[1].id
                 [] OTHER -> m.id
     IN /\ id = "" => e.error = "Missing message id"
        /\ (id # "" /\ level = "0" /\ m.payload = None) => e.error = "No body found"
        /\ (id # "" /\ ~(level = "0" /\ m.payload = None)) =>
             /\ e.error = ""
             /\ e.messageId = "m" \o level
             /\ e.subject = (CASE level = "A" -> "A" [] level = "D" -> "D"
                               [] OTHER -> "Outer")
             /\ e.body = (CASE level = "A" -> "<b>hi</b>" [] level = "D" -> "world"
                            [] OTHER -> "hello")
             /\ e.bodyMime = (IF level = "A" THEN "text/html" ELSE "text/plain")

\* C15 witness: a record with an id, a payload and both envelopes, the first
\* envelope holding a further envelope with an id of its own, was extracted as
\* the first envelope.
C15_Witness ==
  /\ extraction.pc = "extracted"
  /\ extraction.msg.id = "m0" /\ extraction.msg.payload # None
  /\ extraction.msg._airbyte_data # None /\ extraction.msg.data # None
  /\ extraction.msg._airbyte_data[1].data # None
  /\ extraction.msg._airbyte_data[1].data[1].id = "mN"
  /\ extraction.email.messageId = "mA"

\* the message extracted on its own is a bare record and its extraction is over
ExtractedTree ==
  /\ extraction.pc \in {"extracted", "thrown", "serialized"}
  /\ extraction.msg \in TreeMessages

\* the root part of the message extracted on its own
Root == extraction.msg.payload[1]

\* the root has a direct child of media type mime (any letter case) with data
DirectChild(mime) ==
  \E i \in 1..Len(Root.parts) :
    /\ Root.parts[i].mimeType \in
         (IF mime = "text/html" THEN {"text/html", "TEXT/HTML", "Text/Html"}
          ELSE {"text/plain", "TEXT/PLAIN", "Text/Plain"})
    /\ Root.parts[i].data # ""

\* the direct text/html child was selected: HtmlHi is the one html leaf
HtmlChildSelected ==
  /\ extraction.email.error = ""
  /\ extraction.part = Some([mime |-> "text/html", data |-> HtmlHi.data])
  /\ extraction.email.bodyMime = "text/html"
  /\ extraction.email.body = "<b>hi</b>"

RECURSIVE PartsOf(_)
\* the parts of a tree, the root included, in depth-first order
PartsOf(part) ==
  LET RECURSIVE Of(_)
      Of(ps) == IF ps = <<>> THEN <<>> ELSE PartsOf(ps[1]) \o Of(Tail(ps))
  IN <<[mimeType |-> part.mimeType, data |-> part.data]>> \o Of(part.parts)

\* the parts of the tree whose media type and data satisfy a test
IsHtml(q) == q.mimeType \in {"text/html", "TEXT/HTML", "Text/Html"}
IsPlain(q) == q.mimeType \in {"text/plain", "TEXT/PLAIN", "Text/Plain"}
HtmlParts == {i \in 1..Len(PartsOf(Root)) : IsHtml(PartsOf(Root)[i])}
DataParts == {i \in 1..Len(PartsOf(Root)) : PartsOf(Root)[i].data # ""}

\* the text/plain leaves with body data three levels below the root
DeepPlainLeaves ==
  {Root.parts[i].parts[j].parts[k] :
     <<i, j, k>> \in
       {t \in (1..MaxParts) \X (1..MaxParts) \X (1..MaxParts) :
          /\ t[1] <= Len(Root.parts)
          /\ t[2] <= Len(Root.parts[t[1]].parts)
          /\ t[3] <= Len(Root.parts[t[1]].parts[t[2]].parts)
          /\ IsPlain(Root.parts[t[1]].parts[t[2]].parts[t[3]])
          /\ Root.parts[t[1]].parts[t[2]].parts[t[3]].parts = <<>>
          /\ Root.parts[t[1]].parts[t[2]].parts[t[3]].data # ""}}

\* C17 as stated, for the trees whose parts with body data are all text/plain
\* leaves: with no text/html anywhere and a text/plain leaf with body data
\* three levels deep, the selected body is the data of that leaf.
C17_DeepPlainLeafSelected ==
  (/\ ExtractedTree
   /\ HtmlParts = {} /\ DeepPlainLeaves # {}
   /\ Root.data = ""
   /\ \A i \in DataParts : IsPlain(PartsOf(Root)[i]))
  => /\ extraction.email.error = ""
     /\ \E leaf \in DeepPlainLeaves : extraction.part[1].data = leaf.data

\* C17, amended: with no text/html anywhere and a text/plain leaf with body
\* data three levels deep extraction succeeds; the selected body is that leaf's
\* data when the leaf is the only part of the tree that carries body data
\* (any other part with body data that the traversal reaches first is selected
\* instead).
C17_DeepPlainLeafFound ==
  (ExtractedTree /\ HtmlParts = {} /\ DeepPlainLeaves # {})
  => /\ extraction.email.error = ""
     /\ Cardinality(DataParts) = 1 =>
          \E leaf \in DeepPlainLeaves :
            /\ extraction.part = Some([mime |-> "text/plain", data |-> leaf.data])
            /\ extraction.email.bodyMime = "text/plain"
            /\ extraction.email.body = base64UrlDecode(leaf.data)

\* C17 witness: root > multipart > multipart > text/plain leaf, the leaf the
\* only part with body data, extracted with the leaf's text as the body.
C17_Witness ==
  /\ ExtractedTree
  /\ Root.data = "" /\ Len(Root.parts) = 1
  /\ Len(Root.parts[1].parts) = 1 /\ Len(Root.parts[1].parts[1].parts) = 1
  /\ Root.parts[1].parts[1].parts[1] = PlainHello
  /\ extraction.email.error = "" /\ extraction.email.body = "hello"

\* the text/plain part was selected as the body
PlainSelected ==
  /\ extraction.email.error = ""
  /\ extraction.part # None /\ IsPlain([mimeType |-> extraction.part[1].mime])

\* C18 as stated, for multipart roots: a text/plain part is selected only when
\* no text/html part with body data exists anywhere in the part tree, at any
\* depth.
C18_PlainOnlyWithoutHtml ==
  (ExtractedTree /\ Root.mimeType = "multipart/mixed" /\ PlainSelected)
  => \A i \in HtmlParts : PartsOf(Root)[i].data = ""

\* C19 as stated: the part whose data becomes the body always has media type
\* text/html or text/plain; an attachment leaf is never selected.  The trees
\* considered have a multipart root and hold a text part with body data.
C19_BodyPartIsText ==
  (/\ ExtractedTree /\ extraction.email.error = ""
   /\ Root.mimeType = "multipart/mixed"
   /\ \E i \in DataParts : IsHtml(PartsOf(Root)[i]) \/ IsPlain(PartsOf(Root)[i]))
  => \/ IsHtml([mimeType |-> extraction.part[1].mime])
     \/ IsPlain([mimeType |-> extraction.part[1].mime])

\* a header line with its line end, or nothing when the field is empty
Emitted(name, value) ==
  IF value = "" THEN "" ELSE name \o ": " \o value \o "\r\n"

\* C20: the serialized text is the non-empty optional fields, one line each in
\* the order From, To, Cc, Bcc, Subject, Date, then Message-ID: <id@gmail>,
\* MIME-Version: 1.0 and Content-Type: bodyMime; charset="UTF-8", the lines
\* separated by CRLF, then CRLF CRLF and the body as the end of the text; the
\* record of the spec's scenario serializes to the text written out below.
C20_EmlLayout ==
  extraction.pc = "serialized" =>
    LET e == extraction.email
    IN /\ extraction.eml =
            Emitted("From", e.from) \o Emitted("To", e.to) \o Emitted("Cc", e.cc)
            \o Emitted("Bcc", e.bcc) \o Emitted("Subject", e.subject)
            \o Emitted("Date", e.date)
            \o "Message-ID: <" \o e.messageId \o "@gmail>\r\n"
            \o "MIME-Version: 1.0\r\n"
            \o "Content-Type: " \o e.bodyMime \o "; charset=\"UTF-8\"\r\n"
            \o "\r\n" \o e.body
       /\ extraction.msg = RecPlain =>
            extraction.eml =
              "Subject: Hi\r\nMessage-ID: <m1@gmail>\r\nMIME-Version: 1.0\r\nContent-Type: text/plain; charset=\"UTF-8\"\r\n\r\nhello"

\* C20 witness: a message whose headers list Date, Subject, an empty Cc, To and
\* From in that order, serialized with four header lines before Message-ID.
C20_Witness ==
  /\ extraction.pc = "serialized"
  /\ RecPlain \in Messages
  /\ extraction.msg \in HeaderMessages
  /\ Len(extraction.msg.payload[1].headers) = 5
  /\ extraction.msg.payload[1].headers[1].name = "Date"
  /\ extraction.msg.payload[1].headers[3] = Header("Cc", "")
  /\ extraction.email.from = "a@x" /\ extraction.email.to = "b@x"
  /\ extraction.email.subject = "Hi" /\ extraction.email.date = "Mon"
  /\ extraction.email.cc = "" /\ extraction.email.bcc = ""

RECURSIVE EntriesOf(_, _)
\* the entries of the first n pages, in listing order
EntriesOf(pages, n) ==
  IF n = 0 THEN <<>> ELSE EntriesOf(pages, n - 1) \o pages[n]

\* the entry is a key with the .jsonl extension, in either letter case
IsJsonlKey(key) == key \in {"a.jsonl", "B.JSONL"}

\* C21: listJsonlKeys requests the pages one after the other, each once, until
\* the first page that is not truncated; after every page its keys are the
\* .jsonl keys (extension in any letter case) of the pages read so far in
\* listing order, none dropped and none twice, and it returns after the last
\* page with the .jsonl keys of all pages.
C21_AllPagesListed ==
  /\ listing.pc = "send" =>
       /\ listing.sent < Len(listing.pages)
       /\ listing.continuationToken = listing.sent
       /\ listing.keys = SelectSeq(EntriesOf(listing.pages, listing.sent), IsJsonlKey)
  /\ listing.pc = "returned" =>
       /\ listing.sent = Len(listing.pages)
       /\ listing.keys =
            SelectSeq(EntriesOf(listing.pages, Len(listing.pages)), IsJsonlKey)

\* C21 witness: a listing of three pages, one entry each, the first not a
\* .jsonl key, returned as the two keys of the second and third page.
C21_Witness ==
  /\ listing.pc = "returned"
  /\ Len(listing.pages) = 3 /\ listing.sent = 3
  /\ listing.pages[1] = <<"c.json">>
  /\ listing.keys = <<"B.JSONL", "a.jsonl">>

\* the store operations a run has sent for its records
StoreOps(r) == r.heads + r.putsSent

\* how far a run has read: the file of the listing and the line in it
Cursor(r) == <<r.fileIdx, IF r.pc = "open" THEN 0 ELSE r.linePos>>

\* C22: files are processed in listing order and records in line order, one
\* record at a time: the reading position of a run never moves back, a step
\* sends at most one store operation, and a probe or write is always for the
\* record on the line read last of the file at the current position of the
\* listing, touches only that record's target key and does not move the
\* position, so all operations of earlier records and earlier files precede it.
C22_StrictlySequential ==
  [][\A p \in Runs :
       LET a == run[p]
           b == run'[p]
       IN a.pc \notin {"idle", "off"} =>
            /\ \/ Cursor(a)[1] < Cursor(b)[1]
               \/ Cursor(a)[1] = Cursor(b)[1] /\ Cursor(a)[2] <= Cursor(b)[2]
            /\ StoreOps(b) \in {StoreOps(a), StoreOps(a) + 1}
            /\ StoreOps(b) # StoreOps(a) =>
                 /\ a.pc \in {"probe", "put"}
                 /\ a.fileIdx \in 1..Len(files)
                 /\ a.linePos - 1 \in 1..Len(files[a.fileIdx])
                 /\ a.record = JSONparse(trim(files[a.fileIdx][a.linePos - 1]))[1]
                 /\ a.targetKey = TargetKey(MsgId(a.record))
                 /\ \A k \in TargetKeys \ {a.targetKey} :
                      store'[k] = store[k] /\ puts'[k] = puts[k]
                 /\ b.fileIdx = a.fileIdx /\ b.linePos = a.linePos
            /\ StoreOps(b) = StoreOps(a) => store' = store /\ puts' = puts]_vars

\* C22 witness: the record of the second file is about to be written after
\* the record of the first file, a different message, was probed and written.
C22_Witness ==
  /\ run[1].pc = "put" /\ run[1].fileIdx = 2
  /\ run[1].heads = 2 /\ run[1].putsSent = 1
  /\ \E k \in TargetKeys \ {run[1].targetKey} : puts[k].ok = 1

\* C24: decode(encode(x)) = x for every text x, control characters and the
\* byte order mark included, whether the encoding carries its padding or not;
\* the string handed to the base64 decoder is the data with "-" replaced by
\* "+" and "_" by "/", followed by (4 - len mod 4) mod 4 "=" characters, so its
\* length is a multiple of 4.
C24_RoundTrip ==
  decoding.pc = "decoded" =>
    LET data == decoding.data
        p == decoding.padded
    IN /\ Len(p) % 4 = 0
       /\ Len(p) = Len(data) + ((4 - (Len(data) % 4)) % 4)
       /\ \A i \in 1..Len(data) :
            p[i] = (CASE data[i] = "-" -> "+" [] data[i] = "_" -> "/"
                      [] OTHER -> data[i])
       /\ \A i \in (Len(data) + 1)..Len(p) : p[i] = "="
       /\ decoding.text # None => decoding.result = decoding.text[1]

\* C24 witness: a text with a control character and a character of several
\* bytes, encoded without padding to a length that is no multiple of 4 and
\* with a character of the URL-safe alphabet, has been decoded.
C24_Witness ==
  /\ decoding.pc = "decoded"
  /\ decoding.text # None /\ ~decoding.withPadding
  /\ \E i \in 1..Len(decoding.text[1]) : decoding.text[1][i] = 10
  /\ \E i \in 1..Len(decoding.text[1]) : decoding.text[1][i] > 127
  /\ Len(decoding.data) % 4 # 0
  /\ \E i \in 1..Len(decoding.data) : decoding.data[i] \in {"-", "_"}
  /\ decoding.result = decoding.text[1]

\* the encoded data has a character outside the URL-safe alphabet and the
\* padding character, or its bytes are not valid UTF-8
Undecodable(data) ==
  \/ \E i \in 1..Len(data) :
       data[i] \notin {UrlSafeChar(v) : v \in 0..63} \cup {"="}
  \/ \E i \in 1..Len(DecodeChars(data)) : DecodeChars(data)[i] = Replacement

\* C23 as stated: decoding body data with a character outside the URL-safe
\* alphabet, or whose bytes are not valid UTF-8, fails, so the record is failed
\* and the run goes on: no record with such data in one of its parts gets as
\* far as the write of its object, and a run never ends rejected over it.
C23_UndecodableBodyFails ==
  \A p \in Runs :
    /\ run[p].pc = "put" =>
         \A i \in 1..Len(PartsOf(run[p].record.payload[1])) :
           ~Undecodable(Chars(PartsOf(run[p].record.payload[1])[i].data))
    /\ run[p].cause # "extract"

\* the message extracted on its own is a bare record with a payload whose
\* root has body data and a media type outside the multipart family, or none
LeafRootExtracted ==
  /\ extraction.pc \in {"extracted", "thrown", "serialized"}
  /\ \/ extraction.msg \in TreeMessages
     \/ extraction.msg \in LeafFirstMessages
     \/ extraction.msg \in SparseMessages
  /\ Root.mimeType # "multipart/mixed" /\ Root.data # ""

HasBodyPart(payload) ==
  /\ payload # None
  /\ \E i \in 1..Len(PartsOf(payload[1])) :
       /\ PartsOf(payload[1])[i].mimeType # "multipart/mixed"
       /\ PartsOf(payload[1])[i].data # ""

C27_KeyedByExtractedId ==
  \A p \in Runs :
    run[p].pc = "put" =>
      /\ extractEmail(run[p].record).error = ""
      /\ run[p].targetKey = TargetKey(extractEmail(run[p].record).messageId)
      /\ run[p].eml = toEml(extractEmail(run[p].record))

\* C28 as stated: a key whose document was fully processed in a run is in the
\* state file once that run has ended, whether it returned or aborted on a
\* later key, so that no document is processed by two runs; and a key the
\* state file held when a run loaded it is not fetched in that run.
C28_ProcessedKeysKept ==
  /\ sync.pc \in {"done", "failed"} =>
       \A k \in DocumentKeys : sync.documents[k] >= 1 => k \in sync.stateFile
  /\ \A k \in DocumentKeys : sync.documents[k] <= 1
  /\ sync.fetched \cap sync.loaded = {}

====
